---- MODULE Spec2Model ----
(***************************************************************************)
(* Model of test-music/generate-test-audio.py: ten generators that each    *)
(* build a buffer of SAMPLE_RATE * DURATION float samples and hand it to   *)
(* write_wav, which clamps, quantizes and packs it into a 16-bit mono WAV  *)
(* container.                                                              *)
(*                                                                         *)
(* Numbers.  Time is counted in sample indices i (t = i / SAMPLE_RATE) and *)
(* in tenths of a second for the chime cursor.  A sample handed to         *)
(* write_wav is the rational k / Den, stored as its numerator k.  An       *)
(* envelope gain is a pair <<num, den>>.  The running sums of the pink     *)
(* noise and of the moving average are floats: integers on a grid, rounded *)
(* to MantBits significant bits after every operation (round to nearest,   *)
(* ties to even), with the IEEE inexact flag recording any rounding.       *)
(* sin and exp are not expressible; a sample value they enter is a free    *)
(* choice from Levels.                                                     *)
(***************************************************************************)
EXTENDS Integers, Sequences, FiniteSets, TLC

VARIABLES
    pc,             \* position of the process: call, sched, overlay, master,
                    \* reseed, loop, write, close, done, crashed, and the
                    \* positions of the stand-alone loops (pink, filter, env)
    gen,            \* 1..10: the generator main is at
    i,              \* loop index of the running per-sample loop
    samples,        \* the generator's sample buffer
    rng,            \* the process-wide random stream: [seed, pos]
    error,          \* "none", or the exception that ended the process
    wav,            \* the container open in write_wav, NoWav outside it
    files,          \* the output directory: file name -> data byte count
    t,              \* chime scheduler cursor, in tenths of a second
    chime_events,   \* list of <<onset, freq, amp>>
    ev,             \* index of the chime event being overlaid
    j,              \* inner index of the overlay loop
    rows,           \* pink noise: row index -> value
    running_sum,    \* pink noise: running sum of the rows
    inexact,        \* IEEE inexact flag: some float operation has rounded
    raw_noise,      \* ocean waves: the pre-generated noise
    filtered,       \* ocean waves: the moving-average output so far
    running,        \* ocean waves: running sum of the window
    att,            \* envelope: attack seconds
    rel,            \* envelope: release seconds
    envelope,       \* envelope: gain of the sample just computed, <<num, den>>
    prev_envelope   \* envelope: gain of the sample before it

ctl    == <<pc, gen, i, error>>
io     == <<wav, files>>
chime  == <<t, chime_events, ev, j>>
pink   == <<rows, running_sum>>
ocean  == <<raw_noise, filtered, running>>
fade   == <<att, rel, envelope, prev_envelope>>
vars   == <<pc, gen, i, samples, rng, error, wav, files, t, chime_events, ev, j,
            rows, running_sum, inexact, raw_noise, filtered, running,
            att, rel, envelope, prev_envelope>>

---------------------------------------------------------------------------
(* Module constants, lines 21-25.  SAMPLE_RATE (44100) and DURATION (30)   *)
(* are scaled down; the other three are the program's values.              *)
SAMPLE_RATE == 1
DURATION == 5
NUM_CHANNELS == 1
SAMPLE_WIDTH == 2
MAX_AMP == 32767

(* A sample is k / Den with k in -MaxNum .. MaxNum; MaxNum > Den, so the   *)
(* buffers hold samples outside [-1.0, 1.0].                               *)
Den == 4
MaxNum == 6
MaxLen == 3
SampleVals == (0 - MaxNum) .. MaxNum
Levels == {0 - 1, 1}

(* The stand-alone scaled constants of the generators.                     *)
num_rows == 2
window == 2
MantBits == 3
StreamBits == 7
MaxOsSeed == 1
MaxFade == 5

Generators == << "white-noise.wav", "pink-noise.wav", "binaural-beat-alpha.wav",
                 "ocean-waves.wav", "gentle-rain.wav", "singing-bowl.wav",
                 "soft-drone.wav", "wind-chimes.wav", "calm-heartbeat.wav",
                 "notched-therapy-4khz.wav" >>
NumGenerators == Len(Generators)
WHITE == 1
PINK == 2
OCEAN == 4
RAIN == 5
CHIMES == 8
HEART == 9
NOTCH == 10

NoWav == [open |-> FALSE]
NoGain == <<0, 1>>

---------------------------------------------------------------------------
(* The random module.  The generator is a deterministic function of its    *)
(* seed and of the number of values drawn; the Mersenne Twister itself is  *)
(* not computed: output p of seed s is bit (p mod StreamBits) of s, so     *)
(* that the seeds enumerate every bit stream of that period.  A draw is    *)
(* 0 or 1: the low and the high end of random()'s range.                   *)
Pow2(n) == 2 ^ n
MT(seed, pos) == (seed \div Pow2(pos % StreamBits)) % 2
Peek(r, k) == MT(r.seed, r.pos + k)
Advance(r, n) == [r EXCEPT !.pos = (@ + n) % StreamBits]
AllSeeds == 0 .. (Pow2(StreamBits) - 1)
OsSeeds == 0 .. MaxOsSeed

\* random.uniform(lo, hi) = lo + (hi - lo) * random()
Uniform(lo, hi, r) == lo + (hi - lo) * r
\* random.choice(seq)
Choice(seq, r) == seq[1 + r * (Len(seq) - 1)]

\* random.seed(42), line 267
SeedOmitted == rng
SeedFixed == [seed |-> 42, pos |-> 0]

---------------------------------------------------------------------------
(* write_wav, lines 28-42.                                                 *)

\* s = max(-1.0, min(1.0, s)), line 38, on the numerator of s
MinNum(a, b) == IF b < a THEN b ELSE a
MaxNumOf(a, b) == IF b > a THEN b ELSE a
ClampOmitted(k) == k
Clamp(k) == MaxNumOf(0 - Den, MinNum(Den, k))

\* int(x) for the rational x = n / d, d > 0: Python's int() of a float
\* discards the fractional part
IntFloor(n, d) == n \div d
IntOf(n, d) == IF n >= 0 THEN n \div d ELSE 0 - ((0 - n) \div d)

\* int(s * MAX_AMP), line 39
Quantize(k) == IntOf(Clamp(k) * MAX_AMP, Den)

\* struct.pack('<h', v): two bytes, low byte first, two's complement;
\* struct.error when v is no 16-bit signed integer
Packable(v) == v >= 0 - 32768 /\ v <= 32767
PackBigEndian(v) == << ((v + 65536) % 65536) \div 256, ((v + 65536) % 65536) % 256 >>
Pack(v) == << ((v + 65536) % 65536) % 256, ((v + 65536) % 65536) \div 256 >>

\* packed = b''; for s in samples: packed += struct.pack(...), lines 36-39
RECURSIVE Packed(_)
Packed(buf) ==
    IF buf = << >> THEN << >>
    ELSE Pack(Quantize(Head(buf))) \o Packed(Tail(buf))

AllPackable(buf) == \A k \in 1 .. Len(buf) : Packable(Quantize(buf[k]))

\* the wave object after setnchannels, setsampwidth, setframerate and
\* writeframes, lines 31-40
Container(buf) ==
    [open |-> TRUE, nchannels |-> NUM_CHANNELS, sampwidth |-> SAMPLE_WIDTH,
     framerate |-> SAMPLE_RATE, data |-> Packed(buf)]

\* write_wav up to writeframes: the container holds the packed buffer;
\* struct.pack raises struct.error on a value outside the 16-bit range
WriteWav ==
    /\ pc = "write"
    /\ IF AllPackable(samples)
          THEN wav' = Container(samples) /\ pc' = "close" /\ error' = error
          ELSE wav' = wav /\ pc' = "crashed" /\ error' = "struct.error"
    /\ UNCHANGED <<gen, i, samples, rng, files, chime, pink, inexact,
                   ocean, fade>>

\* wave.open or writeframes raises OSError (permissions, disk space); no
\* caller catches it, so it propagates out of the generator and of main
WriteFailContinue ==
    /\ pc = "write"
    /\ error' = "OSError"
    /\ samples' = << >>
    /\ gen' = gen + 1
    /\ pc' = IF gen = NumGenerators THEN "done" ELSE "call"
    /\ UNCHANGED <<i, rng, wav, files, chime, pink, inexact, ocean, fade>>
WriteFail ==
    /\ pc = "write"
    /\ error' = "OSError"
    /\ pc' = "crashed"
    /\ UNCHANGED <<gen, i, samples, rng, wav, files, chime, pink, inexact,
                   ocean, fade>>

\* the with block closes the file; write_wav reads its size and returns to
\* the generator, which returns to main, which calls the next generator
CloseWav ==
    /\ pc = "close"
    /\ files' = [n \in DOMAIN files \cup {Generators[gen]} |->
                    IF n = Generators[gen] THEN Len(wav.data) ELSE files[n]]
    /\ wav' = NoWav
    /\ samples' = << >>
    /\ gen' = gen + 1
    /\ pc' = IF gen = NumGenerators THEN "done" ELSE "call"
    /\ UNCHANGED <<i, rng, error, chime, pink, inexact, ocean, fade>>

---------------------------------------------------------------------------
(* The linear fade every generator computes inline (lines 51-56, 71-76,    *)
(* 104-109, 139-144, 167-172, 208-213, 240-245, 292-296, 311-316,          *)
(* 380-385): t = i / SAMPLE_RATE; envelope = 1.0; if t < a: envelope =     *)
(* t / a; elif t > DURATION - r: envelope = (DURATION - t) / r.  The gain  *)
(* is the pair <<num, den>>, den > 0.                                      *)
EnvelopeSwapped(idx, a, r) ==
    IF idx < a * SAMPLE_RATE THEN << idx, r * SAMPLE_RATE >>
    ELSE IF idx > (DURATION - r) * SAMPLE_RATE
        THEN << DURATION * SAMPLE_RATE - idx, a * SAMPLE_RATE >>
    ELSE << 1, 1 >>
Envelope(idx, a, r) ==
    IF idx < a * SAMPLE_RATE THEN << idx, a * SAMPLE_RATE >>
    ELSE IF idx > (DURATION - r) * SAMPLE_RATE
        THEN << DURATION * SAMPLE_RATE - idx, r * SAMPLE_RATE >>
    ELSE << 1, 1 >>

---------------------------------------------------------------------------
(* generate_pink_noise, lines 78-88: the scan for the row to redraw.       *)
NoRow == 0 - 1
RECURSIVE ScanRow(_, _)
ScanRow(n, index) ==
    IF n > 0 /\ index < num_rows
        THEN IF n % 2 = 1 THEN index ELSE ScanRow(n \div 2, index + 1)
        ELSE NoRow

---------------------------------------------------------------------------
(* The generators as main runs them, lines 45-58 and alike, and main,      *)
(* lines 398-407.                                                          *)

\* range(SAMPLE_RATE * DURATION), lines 49, 70, 103, 138, 166, 207, 239, 310
LoopBoundShort == SAMPLE_RATE * DURATION - 1
LoopBound == SAMPLE_RATE * DURATION

\* the values one sample draws from the stream
DrawsFor(g, idx, r) ==
    CASE g = WHITE -> 1
      [] g = PINK -> IF ScanRow(idx, 0) # NoRow THEN 1 ELSE 0
      [] g = RAIN -> IF Peek(r, 1) = 0 THEN 3 ELSE 2
      [] g = HEART -> 1
      [] OTHER -> 0

\* chime_freqs, line 264, in hundredths of a hertz
chime_freqs == << 52325, 58733, 65925, 78399, 88000, 104650, 117466 >>

\* main calls the next generator, which sets up its locals; ocean waves
\* and notched therapy draw their raw noise first (lines 126, 347), and
\* wind chimes allocates its buffer and seeds the stream (lines 261-269)
CallGenerator ==
    /\ pc = "call"
    /\ i' = 0
    /\ IF gen = CHIMES
          THEN /\ samples' = [k \in 1 .. (SAMPLE_RATE * DURATION) |-> 0]
               /\ rng' = SeedFixed
               /\ chime_events' = << >>
               /\ t' = 5
               /\ pc' = "sched"
          ELSE /\ samples' = << >>
               /\ rng' = IF gen \in {OCEAN, NOTCH}
                            THEN Advance(rng, SAMPLE_RATE * DURATION) ELSE rng
               /\ UNCHANGED <<chime_events, t>>
               /\ pc' = "loop"
    /\ UNCHANGED <<gen, error, io, ev, j, pink, inexact, ocean, fade>>

\* one iteration of a generator's per-sample loop: samples.append(...)
GenSample ==
    /\ pc = "loop"
    /\ i < LoopBound
    /\ \E v \in Levels : samples' = Append(samples, v)
    /\ rng' = Advance(rng, DrawsFor(gen, i, rng))
    /\ i' = i + 1
    /\ pc' = IF i + 1 < LoopBound THEN "loop" ELSE "write"
    /\ UNCHANGED <<gen, error, io, chime, pink, inexact, ocean, fade>>

\* generate_wind_chimes, lines 270-274: one pass of the while loop
EndOfScheduleLate == DURATION * 10 - 30 + 1
EndOfSchedule == DURATION * 10 - 30
ScheduleEvent ==
    /\ pc = "sched"
    /\ t < EndOfSchedule
    /\ chime_events' = Append(chime_events,
            << t, Choice(chime_freqs, Peek(rng, 0)), Uniform(15, 40, Peek(rng, 1)) >>)
    /\ t' = t + Uniform(3, 20, Peek(rng, 2))
    /\ rng' = Advance(rng, 3)
    /\ UNCHANGED <<ctl, samples, io, ev, j, pink, inexact, ocean, fade>>

\* the while loop ends; the overlay loop starts with the first event
ScheduleDone ==
    /\ pc = "sched"
    /\ t >= EndOfSchedule
    /\ pc' = "overlay"
    /\ ev' = 1
    /\ j' = 0
    /\ UNCHANGED <<gen, i, error, samples, rng, io, t, chime_events, pink,
                   inexact, ocean, fade>>

\* lines 277-281: start_sample, decay_samples, and the inner range
StartSample(e) == (chime_events[e][1] * SAMPLE_RATE) \div 10
DecaySamples == 3 * SAMPLE_RATE
InnerBound(e) == MinNum(DecaySamples, Len(samples) - StartSample(e))

\* lines 282-288: samples[idx] += ... (twice), inside if idx < len(samples)
Overlay(buf, idx, v) ==
    IF idx < Len(buf) THEN [buf EXCEPT ![idx + 1] = v] ELSE buf

OverlayStep ==
    /\ pc = "overlay"
    /\ ev <= Len(chime_events)
    /\ j < InnerBound(ev)
    /\ \E v \in Levels : samples' = Overlay(samples, StartSample(ev) + j, v)
    /\ j' = j + 1
    /\ UNCHANGED <<ctl, rng, io, t, chime_events, ev, pink, inexact, ocean, fade>>

OverlayNext ==
    /\ pc = "overlay"
    /\ ev <= Len(chime_events)
    /\ j >= InnerBound(ev)
    /\ ev' = ev + 1
    /\ j' = 0
    /\ UNCHANGED <<ctl, samples, rng, io, t, chime_events, pink, inexact,
                   ocean, fade>>

OverlayDone ==
    /\ pc = "overlay"
    /\ ev > Len(chime_events)
    /\ pc' = "master"
    /\ i' = 0
    /\ UNCHANGED <<gen, error, samples, rng, io, chime, pink, inexact, ocean, fade>>

\* lines 291-297: the master envelope, in place; a zero sample or a zero
\* gain gives zero
MasterStep ==
    /\ pc = "master"
    /\ i < Len(samples)
    /\ \E v \in (IF samples[i + 1] = 0 \/ Envelope(i, 1, 1)[1] = 0
                    THEN {0} ELSE Levels) :
            samples' = [samples EXCEPT ![i + 1] = v]
    /\ i' = i + 1
    /\ UNCHANGED <<pc, gen, error, rng, io, chime, pink, inexact, ocean, fade>>

\* line 299: random.seed() reseeds the stream from the operating system
Reseed ==
    /\ pc = "master"
    /\ i >= Len(samples)
    /\ \E s \in OsSeeds : rng' = [seed |-> s, pos |-> 0]
    /\ pc' = "write"
    /\ UNCHANGED <<gen, i, error, samples, io, chime, pink, inexact, ocean, fade>>

InitIO == error = "none" /\ wav = NoWav /\ files = << >>
InitChime == t = 0 /\ chime_events = << >> /\ ev = 0 /\ j = 0
InitPink == rows = << >> /\ running_sum = 0
InitOcean == raw_noise = << >> /\ filtered = << >> /\ running = 0
InitFade == att = 0 /\ rel = 0 /\ envelope = NoGain /\ prev_envelope = NoGain

\* the process starts: the random module has seeded itself from the
\* operating system, main is about to call the first generator
Init ==
    /\ pc = "call"
    /\ gen = 1
    /\ i = 0
    /\ samples = << >>
    /\ \E s \in OsSeeds : rng = [seed |-> s, pos |-> 0]
    /\ inexact = FALSE
    /\ InitIO /\ InitChime /\ InitPink /\ InitOcean /\ InitFade

Next ==
    \/ CallGenerator
    \/ GenSample
    \/ ScheduleEvent
    \/ ScheduleDone
    \/ OverlayStep
    \/ OverlayNext
    \/ OverlayDone
    \/ MasterStep
    \/ Reseed
    \/ WriteWav
    \/ WriteFail
    \/ CloseWav

Spec == Init /\ [][Next]_vars

---------------------------------------------------------------------------
(* write_wav alone, on every buffer of up to MaxLen samples over           *)
(* SampleVals.                                                             *)
Buffers == UNION { [1 .. n -> SampleVals] : n \in 0 .. MaxLen }

InitWav ==
    /\ pc = "write"
    /\ gen = 1
    /\ i = 0
    /\ samples \in Buffers
    /\ rng = [seed |-> 0, pos |-> 0]
    /\ inexact = FALSE
    /\ InitIO /\ InitChime /\ InitPink /\ InitOcean /\ InitFade

NextWav ==
    \/ WriteWav
    \/ WriteFail
    \/ CloseWav

SpecWav == InitWav /\ [][NextWav]_vars

---------------------------------------------------------------------------
(* Float arithmetic of the running sums.  A float is an integer on the     *)
(* unit grid with at most MantBits significant bits: m * 2^e, |m| <        *)
(* 2^MantBits, e >= 0.  Every operation returns the exact result rounded   *)
(* to the nearest float, ties to the even mantissa.  1.0 is Unit grid      *)
(* steps, the largest odd mantissa.                                        *)
MantLimit == Pow2(MantBits)
Unit == MantLimit - 1
Abs(x) == IF x < 0 THEN 0 - x ELSE x

\* n / d to the nearest integer, ties to even
RoundHalfEven(n, d) ==
    IF (2 * n + d) % (2 * d) = 0 /\ ((2 * n + d) \div (2 * d)) % 2 = 1
        THEN (2 * n + d) \div (2 * d) - 1
        ELSE (2 * n + d) \div (2 * d)

\* the divisor d * 2^e for the least e that leaves |n| / (d * 2^e) within
\* the mantissa
RECURSIVE ScaleDiv(_, _)
ScaleDiv(a, d) == IF a < MantLimit * d THEN d ELSE ScaleDiv(a, 2 * d)

\* the float nearest to n / d
RoundRat(n, d) == RoundHalfEven(n, ScaleDiv(Abs(n), d)) * (ScaleDiv(Abs(n), d) \div d)
Rounds(n, d) == RoundRat(n, d) * d # n

FAdd(a, b) == RoundRat(a + b, 1)
FSub(a, b) == RoundRat(a - b, 1)
FDiv(a, n) == RoundRat(a, n)

---------------------------------------------------------------------------
(* generate_pink_noise, lines 66-91, with its rows and running sum.        *)

\* the output sample running_sum / num_rows * 0.3 * envelope, as <<num, den>>
PinkSample(sum, idx) ==
    << sum * 3 * Envelope(idx, 2, 2)[1], num_rows * 10 * Unit * Envelope(idx, 2, 2)[2] >>

\* the row the scan of lines 79-88 picks for index idx
ScanFromOne(idx) == ScanRow(idx + 1, 0)
PickRow(idx) == ScanRow(idx, 0)

PinkStep ==
    /\ pc = "pink"
    /\ i < LoopBound
    /\ IF PickRow(i) # NoRow
          THEN /\ rows' = [rows EXCEPT ![PickRow(i)] = Uniform(0 - Unit, Unit, Peek(rng, 0))]
               /\ running_sum' = FAdd(FSub(running_sum, rows[PickRow(i)]),
                                      Uniform(0 - Unit, Unit, Peek(rng, 0)))
               /\ rng' = Advance(rng, 1)
               /\ inexact' = (\/ inexact
                              \/ Rounds(running_sum - rows[PickRow(i)], 1)
                              \/ Rounds(FSub(running_sum, rows[PickRow(i)])
                                        + Uniform(0 - Unit, Unit, Peek(rng, 0)), 1))
          ELSE UNCHANGED <<rows, running_sum, rng, inexact>>
    /\ samples' = Append(samples, PinkSample(running_sum', i))
    /\ i' = i + 1
    /\ UNCHANGED <<pc, gen, error, io, chime, ocean, fade>>

\* generate_pink_noise is entered: rows = [0.0] * num_rows, running_sum = 0.0;
\* the stream is in any state
InitPinkNoise ==
    /\ pc = "pink"
    /\ gen = PINK
    /\ i = 0
    /\ samples = << >>
    /\ \E s \in AllSeeds : rng = [seed |-> s, pos |-> 0]
    /\ rows = [k \in 0 .. (num_rows - 1) |-> 0]
    /\ running_sum = 0
    /\ inexact = FALSE
    /\ InitIO /\ InitChime /\ InitOcean /\ InitFade

NextPink == PinkStep

SpecPink == InitPinkNoise /\ [][NextPink]_vars

---------------------------------------------------------------------------
(* generate_ocean_waves, lines 126-136: the raw noise and its moving       *)
(* average.                                                                *)

\* raw_noise = [random.uniform(-1.0, 1.0) for _ in range(...)], line 126,
\* and filtered = [0.0] * len(raw_noise), lines 129-131
OceanNoise ==
    /\ pc = "noise"
    /\ raw_noise' = [k \in 1 .. (SAMPLE_RATE * DURATION) |->
                        Uniform(0 - Unit, Unit, Peek(rng, k - 1))]
    /\ rng' = Advance(rng, SAMPLE_RATE * DURATION)
    /\ filtered' = [k \in 1 .. (SAMPLE_RATE * DURATION) |-> 0]
    /\ running' = 0
    /\ i' = 0
    /\ pc' = "filter"
    /\ UNCHANGED <<gen, error, samples, io, chime, pink, inexact, fade>>

\* min(i + 1, window), line 136
CountNoWarmup(idx) == window
Count(idx) == MinNum(idx + 1, window)

\* running after lines 133-135
Added(idx) == FAdd(running, raw_noise[idx + 1])
Windowed(idx) ==
    IF idx >= window THEN FSub(Added(idx), raw_noise[idx + 1 - window]) ELSE Added(idx)

\* one pass of the loop of lines 132-136
FilterStep ==
    /\ pc = "filter"
    /\ i < Len(raw_noise)
    /\ running' = Windowed(i)
    /\ filtered' = [filtered EXCEPT ![i + 1] = FDiv(Windowed(i), Count(i))]
    /\ inexact' = (\/ inexact
                   \/ Rounds(running + raw_noise[i + 1], 1)
                   \/ (i >= window /\ Rounds(Added(i) - raw_noise[i + 1 - window], 1))
                   \/ Rounds(Windowed(i), Count(i)))
    /\ i' = i + 1
    /\ UNCHANGED <<pc, gen, error, samples, rng, io, chime, pink, raw_noise, fade>>

InitOceanWaves ==
    /\ pc = "noise"
    /\ gen = OCEAN
    /\ i = 0
    /\ samples = << >>
    /\ \E s \in AllSeeds : rng = [seed |-> s, pos |-> 0]
    /\ inexact = FALSE
    /\ InitIO /\ InitChime /\ InitPink /\ InitOcean /\ InitFade

NextMA ==
    \/ OceanNoise
    \/ FilterStep

SpecMA == InitOceanWaves /\ [][NextMA]_vars

---------------------------------------------------------------------------
(* The envelope of one generator, sample by sample, for attack att and     *)
(* release rel.                                                            *)
EnvStep ==
    /\ pc = "env"
    /\ i < LoopBound
    /\ envelope' = Envelope(i, att, rel)
    /\ prev_envelope' = envelope
    /\ i' = i + 1
    /\ UNCHANGED <<pc, gen, error, samples, rng, io, chime, pink, inexact,
                   ocean, att, rel>>

InitEnv ==
    /\ pc = "env"
    /\ gen = 1
    /\ i = 0
    /\ samples = << >>
    /\ rng = [seed |-> 0, pos |-> 0]
    /\ inexact = FALSE
    /\ att \in 1 .. MaxFade
    /\ rel \in 1 .. MaxFade
    /\ envelope = NoGain
    /\ prev_envelope = NoGain
    /\ InitIO /\ InitChime /\ InitPink /\ InitOcean

NextEnv == EnvStep

SpecEnv == InitEnv /\ [][NextEnv]_vars

---------------------------------------------------------------------------
(* The scheduling loop of generate_wind_chimes on every stream: the state  *)
(* after lines 261-269 with the stream seeded with any value.              *)
InitSched ==
    /\ pc = "sched"
    /\ gen = CHIMES
    /\ i = 0
    /\ samples = [k \in 1 .. (SAMPLE_RATE * DURATION) |-> 0]
    /\ \E s \in AllSeeds : rng = [seed |-> s, pos |-> 0]
    /\ inexact = FALSE
    /\ t = 5
    /\ chime_events = << >>
    /\ ev = 0
    /\ j = 0
    /\ InitIO /\ InitPink /\ InitOcean /\ InitFade

NextSched ==
    \/ ScheduleEvent
    \/ ScheduleDone

SpecSched == InitSched /\ [][NextSched]_vars

---------------------------------------------------------------------------
(* Properties of main and the generators, under Spec.                      *)

\* C1: the buffer a generator hands to write_wav holds exactly
\* SAMPLE_RATE * DURATION samples, whatever values were drawn; in
\* generate_wind_chimes the buffer keeps that length from its allocation
\* through the overlay of every event and the master envelope.
C1_BufferLength ==
    /\ pc \in {"write", "close"} => Len(samples) = SAMPLE_RATE * DURATION
    /\ (gen = CHIMES /\ pc \in {"sched", "overlay", "master"})
          => Len(samples) = SAMPLE_RATE * DURATION
C1_Witness ==
    /\ pc = "write"
    /\ gen = CHIMES
    /\ Len(chime_events) >= 2
    /\ \E k \in 1 .. Len(samples) : samples[k] # 0

\* C2 as stated: when write_wav has raised for one signal and the process
\* has ended, every generator after the failing one has still been run.
C2_Original ==
    (pc \in {"crashed", "done"} /\ error = "OSError")
        => \A g \in (gen + 1) .. NumGenerators : Generators[g] \in DOMAIN files

\* C2 amended: a failure of write_wav ends the process at that generator;
\* the files present are exactly those of the generators before it, and
\* none of a later generator.
C2_FailureAbortsBatch ==
    error = "OSError"
        => /\ pc = "crashed"
           /\ DOMAIN files = { Generators[g] : g \in 1 .. (gen - 1) }
C2_Witness ==
    /\ pc = "crashed"
    /\ error = "OSError"
    /\ gen > 1
    /\ gen < NumGenerators

\* The event list the scheduling loop produces from stream state r and
\* cursor tt.
RECURSIVE ScheduleFrom(_, _)
ScheduleFrom(r, tt) ==
    IF tt < EndOfSchedule
        THEN << << tt, Choice(chime_freqs, Peek(r, 0)), Uniform(15, 40, Peek(r, 1)) >> >>
             \o ScheduleFrom(Advance(r, 3), tt + Uniform(3, 20, Peek(r, 2)))
        ELSE << >>

\* C6: once generate_wind_chimes has scheduled its events, the list of
\* (onset, frequency, amplitude) triples is the one the stream seeded with
\* 42 determines, whatever the process-wide stream held when it was called.
C6_SameEvents ==
    (gen = CHIMES /\ pc \in {"overlay", "master", "write", "close"})
        => chime_events = ScheduleFrom([seed |-> 42, pos |-> 0], 5)
C6_Witness ==
    /\ gen = CHIMES
    /\ pc = "overlay"
    /\ Len(chime_events) >= 2
    /\ rng.seed = 42

---------------------------------------------------------------------------
(* Properties of write_wav, under SpecWav.                                 *)

\* the 16-bit signed integer two little-endian bytes stand for
Decode(lo, hi) == IF lo + 256 * hi >= 32768 THEN lo + 256 * hi - 65536 ELSE lo + 256 * hi
Written(k) == Decode(wav.data[2 * k - 1], wav.data[2 * k])
\* the numerator of clamp(s, -1.0, 1.0) * 32767 over Den
Scaled(k) ==
    (IF samples[k] < 0 - Den THEN 0 - Den
     ELSE IF samples[k] > Den THEN Den ELSE samples[k]) * 32767
\* n / d rounded to the nearest integer, ties to even (Python's round)
RoundNearest(n, d) ==
    IF (2 * n + d) % (2 * d) = 0 /\ ((2 * n + d) \div (2 * d)) % 2 = 1
        THEN (2 * n + d) \div (2 * d) - 1
        ELSE (2 * n + d) \div (2 * d)

\* C3 as stated: every sample is written as round(clamp(s, -1, 1) * 32767).
C3_Original ==
    wav.open => \A k \in 1 .. Len(samples) : Written(k) = RoundNearest(Scaled(k), Den)

\* C3 amended: every sample is written as clamp(s, -1, 1) * 32767 with the
\* fractional part discarded (truncated toward zero), as one 2-byte
\* little-endian signed integer.
C3_Truncates ==
    wav.open =>
        /\ Len(wav.data) = 2 * Len(samples)
        /\ \A k \in 1 .. Len(samples) :
              /\ Scaled(k) >= 0 =>
                    Written(k) * Den <= Scaled(k) /\ Scaled(k) < (Written(k) + 1) * Den
              /\ Scaled(k) < 0 =>
                    (Written(k) - 1) * Den < Scaled(k) /\ Scaled(k) <= Written(k) * Den
C3_Witness ==
    /\ wav.open
    /\ \E k \in 1 .. Len(samples) : Scaled(k) < 0 /\ Scaled(k) % Den # 0
    /\ \E k \in 1 .. Len(samples) : Scaled(k) > 0 /\ (2 * Scaled(k)) % Den # 0
                                     /\ (Scaled(k) % Den) * 2 > Den

\* C4: write_wav never raises for a sample out of range: a sample above
\* 1.0 is written as 32767, one below -1.0 as -32767, and every written
\* value is a 16-bit signed integer.
C4_ClampedNoError ==
    /\ error # "struct.error"
    /\ wav.open =>
          \A k \in 1 .. Len(samples) :
              /\ Written(k) >= 0 - 32768 /\ Written(k) <= 32767
              /\ samples[k] > Den => Written(k) = 32767
              /\ samples[k] < 0 - Den => Written(k) = 0 - 32767
C4_Witness ==
    /\ wav.open
    /\ \E k \in 1 .. Len(samples) : samples[k] > Den
    /\ \E k \in 1 .. Len(samples) : samples[k] < 0 - Den

\* C5: the container of an n-sample buffer declares 1 channel, the sample
\* rate SAMPLE_RATE and 16 bits, and holds exactly 2 * n data bytes: bytes
\* 2k-1 and 2k are sample k's quantized value, in buffer order.
C5_HeaderAndBytes ==
    wav.open =>
        /\ wav.nchannels = 1
        /\ wav.framerate = SAMPLE_RATE
        /\ wav.sampwidth * 8 = 16
        /\ Len(wav.data) = 2 * Len(samples)
        /\ \A k \in 1 .. Len(samples) : Written(k) = Quantize(samples[k])
C5_Witness ==
    /\ wav.open
    /\ Len(samples) = MaxLen
    /\ \E k \in 1 .. (MaxLen - 1) : samples[k] # samples[k + 1]

---------------------------------------------------------------------------
(* Properties of the scheduling loop, under SpecSched.                     *)
Onset(k) == chime_events[k][1]

\* C7 as stated: every onset is strictly greater than 0.5 and strictly less
\* than DURATION - 3.0, and the onsets increase strictly.
C7_Original ==
    /\ \A k \in 1 .. Len(chime_events) : Onset(k) > 5 /\ Onset(k) < DURATION * 10 - 30
    /\ \A k \in 1 .. (Len(chime_events) - 1) : Onset(k) < Onset(k + 1)

\* C7 amended: the first onset is 0.5 itself; every onset is at least 0.5
\* and strictly less than DURATION - 3.0; consecutive onsets are 0.3 to 2.0
\* apart, so they increase strictly; the cursor has advanced by at least
\* 0.3 per event, so there are at most ceil((DURATION - 3.5) / 0.3) events.
C7_OnsetsInRange ==
    /\ \A k \in 1 .. Len(chime_events) : Onset(k) >= 5 /\ Onset(k) < DURATION * 10 - 30
    /\ Len(chime_events) >= 1 => Onset(1) = 5
    /\ \A k \in 1 .. (Len(chime_events) - 1) :
          Onset(k + 1) - Onset(k) >= 3 /\ Onset(k + 1) - Onset(k) <= 20
    /\ t >= 5 + 3 * Len(chime_events)
    /\ 3 * Len(chime_events) <= DURATION * 10 - 30 - 5 + 2
C7_Witness ==
    /\ pc = "overlay"
    /\ Len(chime_events) >= 3
    /\ t > DURATION * 10 - 30 + 3

---------------------------------------------------------------------------
(* Properties of the pink noise loop, under SpecPink.                      *)
LowestSetBit(n) == CHOOSE k \in 0 .. n : n % Pow2(k + 1) = Pow2(k)
RECURSIVE SumRows(_, _)
SumRows(f, k) == IF k < 0 THEN 0 ELSE f[k] + SumRows(f, k - 1)
Drawn == Uniform(0 - Unit, Unit, MT(rng.seed, rng.pos))
OneDraw == rng' = [seed |-> rng.seed, pos |-> (rng.pos + 1) % StreamBits]

\* C8 as stated: every sample, with n the 1-based count of the samples
\* produced so far, draws exactly one value and redraws exactly the row at
\* the lowest set bit of n, no other row; afterwards the running sum is the
\* sum of the rows.
C8_Original ==
    [][ (pc = "pink" /\ i' = i + 1) =>
            /\ OneDraw
            /\ LowestSetBit(i + 1) < num_rows
            /\ rows' = [rows EXCEPT ![LowestSetBit(i + 1)] = Drawn]
            /\ running_sum' = SumRows(rows', num_rows - 1) ]_vars

\* C8 amended: with i the 0-based loop index (the samples produced before
\* this one): when i >= 1 and the lowest set bit of i is below num_rows,
\* exactly one value is drawn and exactly that row is redrawn; otherwise
\* (the first sample, and every i divisible by 2^num_rows) nothing is drawn
\* and no row changes.  The running sum is the sum of the rows as long as
\* no float operation has rounded.
C8_RowPerIndex ==
    [][ (pc = "pink" /\ i' = i + 1) =>
            /\ IF i >= 1 /\ LowestSetBit(i) < num_rows
                  THEN OneDraw /\ rows' = [rows EXCEPT ![LowestSetBit(i)] = Drawn]
                  ELSE rng' = rng /\ rows' = rows
            /\ ~inexact' => running_sum' = SumRows(rows', num_rows - 1) ]_vars
C8_Witness ==
    /\ pc = "pink"
    /\ i > Pow2(num_rows)
    /\ \A k \in 0 .. (num_rows - 1) : rows[k] # 0
    /\ rows[0] # rows[1]
    /\ ~inexact
    /\ running_sum = SumRows(rows, num_rows - 1)

---------------------------------------------------------------------------
(* Properties of the moving average, under SpecMA.                         *)
RECURSIVE SumRange(_, _, _)
SumRange(seq, lo, hi) == IF lo > hi THEN 0 ELSE seq[hi] + SumRange(seq, lo, hi - 1)
\* the sum of the raw samples at indices max(0, k - window + 1) .. k
WindowSum(k) == SumRange(raw_noise, (IF k - window + 1 > 0 THEN k - window + 1 ELSE 0) + 1, k + 1)
WindowCount(k) == IF k + 1 < window THEN k + 1 ELSE window
ConstantInput == \A k \in 1 .. Len(raw_noise) : raw_noise[k] = raw_noise[1]

\* C9 as stated: every output is the mean of the raw samples in its
\* window, divided by the actual count; for a constant input c the output
\* is c at the first sample and at every index from window on.
C9_Original ==
    pc = "filter" =>
        \A k \in 0 .. (i - 1) :
            /\ filtered[k + 1] * WindowCount(k) = WindowSum(k)
            /\ (ConstantInput /\ (k = 0 \/ k >= window)) => filtered[k + 1] = raw_noise[1]

\* C9 amended: the first output is the first raw sample exactly; every
\* output is the float quotient of the running sum by min(i + 1, window),
\* which is the mean of the window (and c for a constant input c) as long
\* as no float operation has rounded.
C9_MeanUnlessRounded ==
    pc = "filter" =>
        /\ i >= 1 => filtered[1] = raw_noise[1]
        /\ ~inexact =>
              \A k \in 0 .. (i - 1) :
                  /\ filtered[k + 1] * WindowCount(k) = WindowSum(k)
                  /\ ConstantInput => filtered[k + 1] = raw_noise[1]
C9_Witness ==
    /\ pc = "filter"
    /\ i = Len(raw_noise)
    /\ i > window
    /\ ~inexact
    /\ \E k \in 1 .. (Len(raw_noise) - 1) : raw_noise[k] # raw_noise[k + 1]

---------------------------------------------------------------------------
(* Properties of the envelope, under SpecEnv.  envelope is the gain of     *)
(* sample index i - 1, prev_envelope that of index i - 2.                  *)
GainLe(g, h) == g[1] * h[2] <= h[1] * g[2]
GainInUnit == envelope[1] >= 0 /\ envelope[1] <= envelope[2]
GainShape ==
    /\ i - 1 = att * SAMPLE_RATE => envelope[1] = envelope[2]
    /\ (i - 1 >= 1 /\ i - 1 <= att * SAMPLE_RATE) => GainLe(prev_envelope, envelope)
    /\ (i - 1 >= 1 /\ i - 2 >= (DURATION - rel) * SAMPLE_RATE)
          => GainLe(envelope, prev_envelope)

====
